---------------------------- MODULE Spec2Model ----------------------------
(***************************************************************************)
(* Model of src/src/cacher/mod.rs: the linear cache `Cacher` (the spec's   *)
(* Ordered Cache) and the random cache `RandomCacher` (the spec's          *)
(* Reordering Cache).                                                      *)
(*                                                                         *)
(* Scale.  TLC's integers are 32 bits wide, so the program's 32-bit        *)
(* sequence space cannot be enumerated as it is.  The four numbers of the  *)
(* program are scaled down together, keeping their order and the gaps      *)
(* between them that the code relies on:                                   *)
(*                                                                         *)
(*      source                                model                        *)
(*      INITIAL_CACHE_SIZE   = 65536          4                            *)
(*      MAX_CACHE_SIZE       = 16 * INITIAL   4 * INITIAL = 16             *)
(*      MAX_U32_WINDOW_SIZE  = 4194304        32                           *)
(*      u32::MAX             = 2^32 - 1       2^8 - 1 = 255                *)
(*      u16::MAX             = INITIAL - 1    INITIAL - 1 = 3              *)
(*                                                                         *)
(* INITIAL < MAX < WINDOW, and 2 * (WINDOW + MAX) < u32::MAX + 1, as in    *)
(* the source.  Every formula of the code is kept as written, over these   *)
(* names.  Sequence numbers are `u32` (wrapping at U32_MAX + 1), lengths   *)
(* and indices are `usize`, range keys are `u64`.                          *)
(*                                                                         *)
(* A Vec<u8> is a sequence; the slice v[a..b] is Slice(v, a, b), index i   *)
(* of the source is element i + 1 here.  Bytes are naturals, 0 is the      *)
(* fill byte of vec![0; n].                                                *)
(***************************************************************************)
EXTENDS Integers, Sequences, FiniteSets, TLC

INITIAL_CACHE_SIZE == 4
MAX_CACHE_SIZE == 4 * INITIAL_CACHE_SIZE
MAX_U32_WINDOW_SIZE == 32
U32_MAX == 255
U16_MAX == 3

\* Bounds of the exploration (not program constants).
MaxOps == 4
MaxAppend == 5
RcMaxOps == 3
MaxStream == 5

U32Modulus == U32_MAX + 1

min(a, b) == IF a <= b THEN a ELSE b
max(a, b) == IF a >= b THEN a ELSE b

\* vec![0u8; n]
Zeros(n) == [i \in 1..n |-> 0]
\* v[a..b]
Slice(v, a, b) == SubSeq(v, a + 1, b)
\* v[a..a + Len(src)].copy_from_slice(src)
CopyFromSlice(v, a, src) ==
    [i \in 1..Len(v) |-> IF i > a /\ i <= a + Len(src) THEN src[i - a] ELSE v[i]]

\* a.checked_sub(b).unwrap_or_else(|| u32::MAX - b + a), the distance the code
\* uses from sequence b forward to sequence a.
SubU32(a, b) == IF a >= b THEN a - b ELSE U32_MAX - b + a
\* a.checked_add(n as u32).unwrap_or_else(|| n as u32 - (u32::MAX - a))
AddU32(a, n) ==
    IF a + (n % U32Modulus) <= U32_MAX
    THEN a + (n % U32Modulus)
    ELSE (n % U32Modulus) - (U32_MAX - a)

\* The true distance in the 32-bit ring from sequence b forward to sequence a.
RingSub(a, b) == (a - b + U32Modulus) % U32Modulus
RingAdd(a, n) == (a + n) % U32Modulus

-----------------------------------------------------------------------------
(***************************************************************************)
(* Cacher, the linear cache.                                               *)
(***************************************************************************)

Cacher_new(sequence) ==
    [buffer |-> Zeros(INITIAL_CACHE_SIZE), sequence |-> sequence, head |-> 0, size |-> 0]

\* Cacher_extend_size without the `capacity + len` alternative: the buffer
\* only ever doubles.
Cacher_extend_size_doubling(cap, len) == min(cap * 2, MAX_CACHE_SIZE)

\* The size of the extended buffer (lines 38-41).
Cacher_extend_size(cap, len) == min(max(cap * 2, cap + len), MAX_CACHE_SIZE)

\* Cacher_extend without the copy: the new buffer is allocated and the held
\* bytes are left behind in the old one.
Cacher_extend_no_copy(c, size) == [c EXCEPT !.buffer = Zeros(size), !.head = 0]

\* "Extend the buffer" (lines 46-59): the held bytes move to the front of a
\* new buffer in two segments.
Cacher_extend(c, size) ==
    LET cap == Len(c.buffer)
        length_a == min(c.size, cap - c.head)
        length_b == c.size - length_a
        nb0 == Zeros(size)
        nb1 == CopyFromSlice(nb0, 0, Slice(c.buffer, c.head, c.head + length_a))
        nb2 == IF length_b > 0
               THEN CopyFromSlice(nb1, length_a, Slice(c.buffer, 0, length_b))
               ELSE nb1
    IN  [c EXCEPT !.buffer = nb2, !.head = 0]

\* The write at the tail (lines 62-76).
Cacher_write(c, buffer) ==
    LET cap == Len(c.buffer)
        length_a == IF c.head + c.size < cap
                    THEN min(Len(buffer), cap - (c.head + c.size))
                    ELSE 0
        b1 == IF c.head + c.size < cap
              THEN CopyFromSlice(c.buffer, c.head + c.size, Slice(buffer, 0, length_a))
              ELSE c.buffer
        length_b == Len(buffer) - length_a
        b2 == IF length_b > 0
              THEN CopyFromSlice(b1, 0, Slice(buffer, length_a, Len(buffer)))
              ELSE b1
    IN  [c EXCEPT !.buffer = b2, !.size = c.size + Len(buffer)]

\* Cacher::append storing what fits before it refuses: a refused append
\* leaves the cache grown and filled with the head of the bytes.
Cacher_append_partial(c, buffer) ==
    IF Len(buffer) > Len(c.buffer) - c.size
    THEN LET size == min(max(Len(c.buffer) * 2, Len(c.buffer) + Len(buffer)),
                         MAX_CACHE_SIZE)
             grown == Cacher_extend(c, size)
         IN  IF c.size + Len(buffer) > size
             THEN [st |-> Cacher_write(grown, Slice(buffer, 0, size - c.size)),
                   ret |-> "Err"]
             ELSE [st |-> Cacher_write(grown, buffer), ret |-> "Ok"]
    ELSE [st |-> Cacher_write(c, buffer), ret |-> "Ok"]

\* Cacher::append: the new state and Ok or Err("cache is full").
Cacher_append(c, buffer) ==
    IF Len(buffer) > Len(c.buffer) - c.size
    THEN LET size == Cacher_extend_size(Len(c.buffer), Len(buffer))
         IN  IF c.size + Len(buffer) > size
             THEN [st |-> c, ret |-> "Err"]
             ELSE [st |-> Cacher_write(Cacher_extend(c, size), buffer), ret |-> "Ok"]
    ELSE [st |-> Cacher_write(c, buffer), ret |-> "Ok"]

\* The number of bytes invalidate_to(sequence) takes sequence to be ahead
\* of the cache (lines 83-85).
Cacher_invalidate_size(c, sequence) == SubU32(sequence, c.sequence)

\* Cacher_invalidate_to without the outer reduction of line 93: head is
\* advanced and not brought back into the buffer.
Cacher_invalidate_to_no_wrap(c, sequence) ==
    LET size == SubU32(sequence, c.sequence)
        left == IF c.size >= size THEN c.size - size ELSE 0
    IN  IF size <= MAX_U32_WINDOW_SIZE
        THEN [c EXCEPT !.sequence = sequence,
                       !.size = left,
                       !.head = IF left = 0
                                THEN 0
                                ELSE c.head + (size % Len(c.buffer))]
        ELSE c

\* Cacher::invalidate_to
Cacher_invalidate_to(c, sequence) ==
    LET size == Cacher_invalidate_size(c, sequence)
        left == IF c.size >= size THEN c.size - size ELSE 0
    IN  IF size <= MAX_U32_WINDOW_SIZE
        THEN [c EXCEPT !.sequence = sequence,
                       !.size = left,
                       !.head = IF left = 0
                                THEN 0
                                ELSE (c.head + (size % Len(c.buffer))) % Len(c.buffer)]
        ELSE c

\* Cacher_get with the size test off by one: a request for every held byte
\* is refused.
Cacher_get_strict(c, size) ==
    IF size = 0 THEN [ret |-> "Ok", data |-> <<>>]
    ELSE IF c.size <= size THEN [ret |-> "Err", data |-> <<>>]
    ELSE [ret |-> "Ok",
          data |-> [i \in 1..size |-> c.buffer[((c.head + i - 1) % Len(c.buffer)) + 1]]]

\* Cacher::get: Ok(bytes) or Err("request size too big").
Cacher_get(c, size) ==
    IF size = 0 THEN [ret |-> "Ok", data |-> <<>>]
    ELSE IF c.size < size THEN [ret |-> "Err", data |-> <<>>]
    ELSE LET length_a == min(size, Len(c.buffer) - c.head)
             length_b == size - length_a
             v1 == CopyFromSlice(Zeros(size), 0, Slice(c.buffer, c.head, c.head + length_a))
             v2 == IF length_b > 0
                   THEN CopyFromSlice(v1, length_a, Slice(c.buffer, 0, length_b))
                   ELSE v1
         IN  [ret |-> "Ok", data |-> v2]

Cacher_get_size(c) == c.size
Cacher_get_sequence(c) == c.sequence
Cacher_get_all(c) == Cacher_get(c, Cacher_get_size(c))

-----------------------------------------------------------------------------
(***************************************************************************)
(* RandomCacher, the random cache.  `ranges` (a BTreeMap<u64, usize>) is a *)
(* function from its keys to their values.                                 *)
(***************************************************************************)

NoRanges == [k \in {} |-> 0]
\* BTreeMap::remove for each key of ks
RangesRemove(r, ks) == [k \in (DOMAIN r) \ ks |-> r[k]]
\* BTreeMap::insert
RangesInsert(r, key, value) ==
    [k \in (DOMAIN r) \cup {key} |-> IF k = key THEN value ELSE r[k]]
SetMin(S) == CHOOSE x \in S : \A y \in S : x <= y
SetMax(S) == CHOOSE x \in S : \A y \in S : x >= y

RandomCacher_new(sequence) ==
    [buffer |-> Zeros(INITIAL_CACHE_SIZE), sequence |-> sequence, head |-> 0, size |-> 0,
     ranges |-> NoRanges]

\* The offset of `sequence` from the release point (lines 167-170).
RandomCacher_sub_sequence(c, sequence) == SubU32(sequence, c.sequence)

\* The size of the extended buffer (line 178).
RandomCacher_extend_size(cap, size) == min(max(cap * 2, size), MAX_CACHE_SIZE)

\* The test that refuses the append (line 179).
RandomCacher_is_full(cap, len, size) == cap + len > size

\* "Extend the buffer" (lines 183-196): the whole ring is rotated to the
\* front of a new buffer.
RandomCacher_extend(c, size) ==
    LET cap == Len(c.buffer)
        nb0 == Zeros(size)
        nb1 == CopyFromSlice(nb0, 0, Slice(c.buffer, c.head, cap))
        nb2 == IF c.head > 0
               THEN CopyFromSlice(nb1, cap - c.head, Slice(c.buffer, 0, c.head))
               ELSE nb1
    IN  [c EXCEPT !.buffer = nb2, !.head = 0]

\* The write of the fragment into the ring (lines 199-212).
RandomCacher_write(c, sub_sequence, buffer) ==
    LET cap == Len(c.buffer)
        fits == cap - c.head > sub_sequence
        length_a == IF fits THEN min(cap - c.head - sub_sequence, Len(buffer)) ELSE 0
        b1 == IF fits
              THEN CopyFromSlice(c.buffer, c.head + sub_sequence, Slice(buffer, 0, length_a))
              ELSE c.buffer
        length_b == Len(buffer) - length_a
        b2 == IF length_b > 0
              THEN CopyFromSlice(b1, 0, Slice(buffer, length_a, Len(buffer)))
              ELSE b1
    IN  [c EXCEPT !.buffer = b2]

\* "Update size" (lines 214-227).
RandomCacher_update_size(c, sequence, len) ==
    LET tail == AddU32(sequence, len)
        record_tail == AddU32(c.sequence, c.size)
        sub_tail == SubU32(tail, record_tail)
    IN  IF sub_tail <= MAX_U32_WINDOW_SIZE
        THEN [c EXCEPT !.size = c.size + sub_tail]
        ELSE c

\* The u64 key of a fragment (lines 231-234).
RandomCacher_key(c, sequence) ==
    IF sequence < c.sequence THEN sequence + U32_MAX ELSE sequence

\* RandomCacher_merge with the selection of line 241 one key too wide: a
\* range that starts one past the end of the fragment is taken as touching.
RandomCacher_merge_wide(c, seq32, len) ==
    LET sequence == IF seq32 < c.sequence THEN seq32 + U32_MAX ELSE seq32
        pop_keys == {k \in DOMAIN c.ranges : sequence <= k /\ k <= sequence + len + 1}
        kept == [k \in (DOMAIN c.ranges) \ pop_keys |-> c.ranges[k]]
        before == {k \in DOMAIN kept : k < sequence}
        prev == CHOOSE x \in before : \A y \in before : x >= y
        merges == before # {} /\ prev + kept[prev] >= sequence
        key == IF merges THEN prev ELSE sequence
        size == IF merges THEN len + (sequence - prev) ELSE len
    IN  [c EXCEPT !.ranges = [k \in (DOMAIN kept) \cup {key} |->
                                IF k = key THEN size ELSE kept[k]]]

\* RandomCacher_merge without the removal of lines 247-250: the ranges that
\* start inside the fragment stay in the map beside the inserted one.
RandomCacher_merge_keep(c, seq32, len) ==
    LET sequence == IF seq32 < c.sequence THEN seq32 + U32_MAX ELSE seq32
        kept == c.ranges
        before == {k \in DOMAIN kept : k < sequence}
        prev == CHOOSE x \in before : \A y \in before : x >= y
        merges == before # {} /\ prev + kept[prev] >= sequence
        key == IF merges THEN prev ELSE sequence
        size == IF merges THEN len + (sequence - prev) ELSE len
    IN  [c EXCEPT !.ranges = [k \in (DOMAIN kept) \cup {key} |->
                                IF k = key THEN size ELSE kept[k]]]

\* "Insert and merge ranges" (lines 229-272).  `end` (lines 238, 244) is
\* computed by the code and never read, so it has no part in the result.
RandomCacher_merge(c, seq32, len) ==
    LET sequence == RandomCacher_key(c, seq32)
        pop_keys == {k \in DOMAIN c.ranges : sequence <= k /\ k <= sequence + len}
        kept == RangesRemove(c.ranges, pop_keys)
        before == {k \in DOMAIN kept : k < sequence}
        merges == before # {} /\ SetMax(before) + kept[SetMax(before)] >= sequence
        key == IF merges THEN SetMax(before) ELSE sequence
        size == IF merges THEN len + (sequence - SetMax(before)) ELSE len
    IN  [c EXCEPT !.ranges = RangesInsert(kept, key, size)]

\* "Pop if possible" (lines 274-311).  The result names what the call
\* returns: "None", "Some" with the bytes, or "Panic" where the code indexes
\* a slice out of range (line 298) or subtracts below zero (lines 285, 306;
\* a build with overflow checks aborts there).
RandomCacher_pop(c) ==
    LET cap == Len(c.buffer)
        first_key == SetMin(DOMAIN c.ranges)
        size == c.ranges[first_key]
        rest == RangesRemove(c.ranges, {first_key})
        shrink == (U32_MAX - c.sequence) < size
        rekeyed == IF shrink
                   THEN [k \in {x - U32_MAX : x \in DOMAIN rest} |-> rest[k + U32_MAX]]
                   ELSE rest
        length_a == min(size, cap - c.head)
        length_b == size - length_a
        v1 == CopyFromSlice(Zeros(size), 0, Slice(c.buffer, c.head, c.head + length_a))
        v2 == IF length_b > 0
              THEN CopyFromSlice(v1, length_a, Slice(c.buffer, 0, length_b))
              ELSE v1
    IN  IF first_key % U32Modulus # c.sequence
        THEN [st |-> c, ret |-> "None", data |-> <<>>]
        ELSE IF \/ (shrink /\ \E k \in DOMAIN rest : k < U32_MAX)
                \/ length_b > cap
                \/ c.size < size
        THEN [st |-> c, ret |-> "Panic", data |-> <<>>]
        ELSE [st |-> [c EXCEPT !.ranges = rekeyed,
                               !.sequence = AddU32(c.sequence, size),
                               !.head = (c.head + (size % cap)) % cap,
                               !.size = c.size - size],
              ret |-> "Some", data |-> v2]

\* RandomCacher::append
RandomCacher_append(c, sequence, buffer) ==
    LET sub_sequence == RandomCacher_sub_sequence(c, sequence)
        size == sub_sequence + Len(buffer)
        new_size == RandomCacher_extend_size(Len(c.buffer), size)
        c1 == IF size > Len(c.buffer) THEN RandomCacher_extend(c, new_size) ELSE c
        c2 == RandomCacher_write(c1, sub_sequence, buffer)
        c3 == RandomCacher_update_size(c2, sequence, Len(buffer))
        c4 == RandomCacher_merge(c3, sequence, Len(buffer))
    IN  IF sub_sequence > MAX_U32_WINDOW_SIZE
        THEN [st |-> c, ret |-> "None", data |-> <<>>]
        ELSE IF size > Len(c.buffer)
                /\ RandomCacher_is_full(Len(c.buffer), Len(buffer), new_size)
        THEN [st |-> c, ret |-> "Err", data |-> <<>>]
        ELSE RandomCacher_pop(c4)

RandomCacher_get_sequence(c) == c.sequence

\* `self.buffer.len() - self.size` (lines 321, 324) goes below zero.
RandomCacher_remaining_underflows(c) == Len(c.buffer) < c.size

\* RandomCacher::get_remaining_size: the results a build can give.  Where the
\* subtraction goes below zero a build with overflow checks aborts, and one
\* without them wraps to a number above u16::MAX and returns u16::MAX.
RandomCacher_get_remaining_size(c) ==
    IF RandomCacher_remaining_underflows(c)
    THEN {[ret |-> "Panic", data |-> <<>>], [ret |-> "Ok", data |-> <<U16_MAX>>]}
    ELSE IF Len(c.buffer) - c.size > U16_MAX
    THEN {[ret |-> "Ok", data |-> <<U16_MAX>>]}
    ELSE {[ret |-> "Ok", data |-> <<Len(c.buffer) - c.size>>]}

-----------------------------------------------------------------------------
(***************************************************************************)
(* The linear cache as a state machine: one Cacher, its owner calling      *)
(* append, invalidate_to and get in any order.                             *)
(*                                                                         *)
(*   oc      the Cacher                                                    *)
(*   ocOp    the last call: its name, argument, the Cacher before it, and  *)
(*           what it returned                                              *)
(*   ocAll   every byte appended successfully so far, in order             *)
(*   ocHeld  the bytes a byte queue would hold now: appended at the tail,  *)
(*           dropped from the front by the ring distance of each in-window *)
(*           invalidate_to                                                 *)
(*   ocInvalidated   invalidate_to has been called                         *)
(*   ocWrapped       invalidate_to has been called with a sequence below   *)
(*                   the cache's, or outside the window                    *)
(*   steps   the number of calls made                                      *)
(*                                                                         *)
(* The i-th byte ever appended is the number i, so every byte of the       *)
(* stream is distinct and no byte equals the fill byte 0.                  *)
(***************************************************************************)
VARIABLES oc, ocOp, ocAll, ocHeld, ocInvalidated, ocWrapped, steps,
          rc, rcOp, rcLog, rcOut, rcFailed, rcStream, rcPending

ocVars == <<oc, ocOp, ocAll, ocHeld, ocInvalidated, ocWrapped>>
rcVars == <<rc, rcOp, rcLog, rcOut, rcFailed, rcStream, rcPending>>

\* Start sequences: the bottom of the range, and just below its top.
Starts == {0, U32_MAX - 1}

\* invalidate_to is called with the cache's sequence plus one of these ring
\* distances.
InvDeltas == {0, 1, 2, 3, 4, 6,
              MAX_U32_WINDOW_SIZE, MAX_U32_WINDOW_SIZE + 1, MAX_U32_WINDOW_SIZE + 2,
              U32_MAX}

NewBytes(n) == [i \in 1..n |-> Len(ocAll) + i]
Drop(s, n) == SubSeq(s, n + 1, Len(s))

OcInit(s) ==
    /\ oc = Cacher_new(s)
    /\ ocOp = [op |-> "new", arg |-> 0, pre |-> oc, ret |-> "Ok", data |-> <<>>]
    /\ ocAll = <<>>
    /\ ocHeld = <<>>
    /\ ocInvalidated = FALSE
    /\ ocWrapped = FALSE

OcAppend ==
    /\ steps < MaxOps
    /\ \E n \in 0..MaxAppend :
         LET buffer == NewBytes(n)
             r == Cacher_append(oc, buffer)
         IN  /\ oc' = r.st
             /\ ocOp' = [op |-> "append", arg |-> n, pre |-> oc, ret |-> r.ret, data |-> buffer]
             /\ ocAll' = IF r.ret = "Ok" THEN ocAll \o buffer ELSE ocAll
             /\ ocHeld' = IF r.ret = "Ok" THEN ocHeld \o buffer ELSE ocHeld
    /\ steps' = steps + 1
    /\ UNCHANGED <<ocInvalidated, ocWrapped>>
    /\ UNCHANGED rcVars

OcInvalidateTo ==
    /\ steps < MaxOps
    /\ \E d \in InvDeltas :
         LET sequence == RingAdd(oc.sequence, d)
         IN  /\ oc' = Cacher_invalidate_to(oc, sequence)
             /\ ocOp' = [op |-> "invalidate_to", arg |-> sequence, pre |-> oc,
                         ret |-> "Ok", data |-> <<>>]
             /\ ocHeld' = IF d <= MAX_U32_WINDOW_SIZE
                          THEN Drop(ocHeld, min(d, Len(ocHeld)))
                          ELSE ocHeld
             /\ ocWrapped' = (ocWrapped \/ sequence < oc.sequence
                                \/ d > MAX_U32_WINDOW_SIZE)
    /\ ocInvalidated' = TRUE
    /\ steps' = steps + 1
    /\ UNCHANGED ocAll
    /\ UNCHANGED rcVars

OcGet ==
    /\ steps < MaxOps
    /\ \E n \in 0..(oc.size + 1) :
         LET r == Cacher_get(oc, n)
         IN  ocOp' = [op |-> "get", arg |-> n, pre |-> oc, ret |-> r.ret, data |-> r.data]
    /\ steps' = steps + 1
    /\ UNCHANGED <<oc, ocAll, ocHeld, ocInvalidated, ocWrapped>>
    /\ UNCHANGED rcVars

-----------------------------------------------------------------------------
(***************************************************************************)
(* The random cache as a state machine: one RandomCacher, its owner        *)
(* calling append with fragments of a byte stream.                         *)
(*                                                                         *)
(*   rc        the RandomCacher                                            *)
(*   rcOp      the last call: its arguments, the RandomCacher before it,   *)
(*             and what it returned                                        *)
(*   rcLog     the calls of append made so far, in order: arguments and    *)
(*             results                                                     *)
(*   rcOut     the byte runs returned so far, concatenated                 *)
(*   rcFailed  some call so far returned the error or aborted              *)
(*   rcStream  the start and the length of the stream being delivered      *)
(*             (RcInitSplit)                                               *)
(*   rcPending the fragments <<offset, length>> of the stream not yet      *)
(*             delivered (RcInitSplit)                                     *)
(*                                                                         *)
(* The byte of the stream at sequence s is s + 1: every byte within one    *)
(* turn of the sequence ring is distinct and none is the fill byte.        *)
(***************************************************************************)
vars == <<oc, ocOp, ocAll, ocHeld, ocInvalidated, ocWrapped, steps,
          rc, rcOp, rcLog, rcOut, rcFailed, rcStream, rcPending>>

ByteAt(sequence) == sequence + 1
Fragment(sequence, len) == [i \in 1..len |-> ByteAt(RingAdd(sequence, i - 1))]

\* append is called with a fragment <<d, n>>: the n bytes of the stream that
\* start at ring distance d from the release point.  Short fragments at and
\* just ahead of the release point; an empty one; one longer than the
\* initial buffer; fragments at the maximum capacity, at the window's edge
\* and just beyond it; one just behind the release point.
RcInputs ==
    ({0, 1, 2, 3} \X {1, 2})
    \cup {<<1, 3>>, <<0, 0>>, <<0, INITIAL_CACHE_SIZE + 1>>,
          <<MAX_CACHE_SIZE - 1, 1>>, <<MAX_CACHE_SIZE, 1>>,
          <<MAX_U32_WINDOW_SIZE, 1>>, <<MAX_U32_WINDOW_SIZE + 1, 1>>,
          <<U32_MAX, 1>>}

RcIdle ==
    /\ rcOp = [op |-> "new", sequence |-> 0, len |-> 0, pre |-> rc,
               ret |-> "None", data |-> <<>>]
    /\ rcLog = <<>>
    /\ rcOut = <<>>
    /\ rcFailed = FALSE

RcInit(s) ==
    /\ rc = RandomCacher_new(s)
    /\ RcIdle
    /\ rcStream = [start |-> s, len |-> 0]
    /\ rcPending = {}

\* One call of append(sequence, buffer), recorded.
RcCall(sequence, buffer) ==
    LET r == RandomCacher_append(rc, sequence, buffer)
    IN  /\ rc' = r.st
        /\ rcOp' = [op |-> "append", sequence |-> sequence, len |-> Len(buffer),
                    pre |-> rc, ret |-> r.ret, data |-> r.data]
        /\ rcLog' = Append(rcLog, [sequence |-> sequence, len |-> Len(buffer),
                                   pre |-> rc, ret |-> r.ret, data |-> r.data])
        /\ rcOut' = rcOut \o r.data
        /\ rcFailed' = (rcFailed \/ r.ret \in {"Err", "Panic"})

RcAppend ==
    /\ steps < RcMaxOps
    /\ rcOp.ret # "Panic"
    /\ \E f \in RcInputs :
         RcCall(RingAdd(rc.sequence, f[1]), Fragment(RingAdd(rc.sequence, f[1]), f[2]))
    /\ steps' = steps + 1
    /\ UNCHANGED <<rcStream, rcPending>>
    /\ UNCHANGED ocVars

\* One call of get_remaining_size(), recorded.  It reads the cache only and
\* is not counted among the calls that `steps` bounds.
RcGetRemainingSize ==
    /\ rcOp.ret # "Panic"
    /\ \E r \in RandomCacher_get_remaining_size(rc) :
         /\ rcOp' = [op |-> "get_remaining_size", sequence |-> 0, len |-> 0,
                     pre |-> rc, ret |-> r.ret, data |-> r.data]
         /\ rcFailed' = (rcFailed \/ r.ret = "Panic")
    /\ UNCHANGED <<rc, rcLog, rcOut, rcStream, rcPending, steps>>
    /\ UNCHANGED ocVars

\* A stream of rcStream.len bytes starting at sequence rcStream.start, cut
\* at the offsets of `cuts` into fragments <<offset, length>>.
Cut(total, cuts) ==
    LET pts == cuts \cup {0, total}
    IN  {<<a, SetMin({b \in pts : b > a}) - a>> : a \in pts \ {total}}

\* The fragments of one stream, each delivered once, in any order.  Streams
\* start low in the sequence range, so no sequence wraps.
RcInitSplit(s) ==
    /\ rc = RandomCacher_new(s)
    /\ RcIdle
    /\ \E total \in 1..MaxStream, cuts \in SUBSET (1..(MaxStream - 1)) :
         /\ \A x \in cuts : x < total
         /\ rcStream = [start |-> s, len |-> total]
         /\ rcPending = Cut(total, cuts)

RcDeliver ==
    /\ rcOp.ret # "Panic"
    /\ \E f \in rcPending :
         /\ RcCall(rcStream.start + f[1], Fragment(rcStream.start + f[1], f[2]))
         /\ rcPending' = rcPending \ {f}
    /\ UNCHANGED <<rcStream, steps>>
    /\ UNCHANGED ocVars

Init == \E s \in Starts : OcInit(s) /\ RcInit(s) /\ steps = 0
InitReorder == \E s \in {0, 3} : OcInit(s) /\ RcInitSplit(s) /\ steps = 0

OcNext == OcAppend \/ OcInvalidateTo \/ OcGet
RcNext == RcAppend \/ RcGetRemainingSize

\* The linear cache alone, and the random cache alone.
SpecOC == Init /\ [][OcNext]_vars
SpecRC == Init /\ [][RcNext]_vars
\* The random cache fed one stream, fragment by fragment.
ReorderNext == RcDeliver
SpecReorder == InitReorder /\ [][ReorderNext]_vars
\* An owner that holds both caches and, in one run, calls one of them: the
\* linear cache while the random cache is as created, or the random cache
\* while the linear cache is as created.
CachesNext ==
    \/ (rcOp.op = "new" /\ OcAppend)
    \/ (rcOp.op = "new" /\ OcInvalidateTo)
    \/ (rcOp.op = "new" /\ OcGet)
    \/ (ocOp.op = "new" /\ RcAppend)
    \/ (ocOp.op = "new" /\ RcGetRemainingSize)
SpecCaches == Init /\ [][CachesNext]_vars

-----------------------------------------------------------------------------
(***************************************************************************)
(* The claims.                                                             *)
(***************************************************************************)

\* C1: when every fragment of a stream that starts at `start` has been
\* appended once, in any order, and no call failed, the byte runs returned,
\* concatenated, are the stream, and get_sequence() is start + its length.
C1_ReorderedStreamIsReleased ==
    (rcPending = {} /\ rcStream.len > 0 /\ ~rcFailed)
        => /\ rcOut = Fragment(rcStream.start, rcStream.len)
           /\ RandomCacher_get_sequence(rc) = rcStream.start + rcStream.len

\* C2: an append of the k bytes at the release point, made while the range
\* [base + k, base + k + m) is buffered, returns all k + m bytes and advances
\* get_sequence() by k + m.
C2_ChainRelease ==
    LET base == rcOp.pre.sequence
        k == rcOp.len
        key == base + k
    IN  (/\ rcOp.op = "append"
         /\ rcOp.sequence = base
         /\ k > 0
         /\ key \in DOMAIN rcOp.pre.ranges
         /\ key + rcOp.pre.ranges[key] <= U32_MAX)
        => LET m == rcOp.pre.ranges[key]
           IN  /\ rcOp.ret = "Some"
               /\ rcOp.data = Fragment(base, k + m)
               /\ RandomCacher_get_sequence(rc) = base + k + m

\* C3: on a cache that has never been invalidated, get_size() is the number
\* of bytes appended and get(n) is the first n of them, for every n up to it.
C3_FreshRoundTrip ==
    ~ocInvalidated
        => /\ Cacher_get_size(oc) = Len(ocAll)
           /\ \A n \in 0..Len(ocAll) :
                Cacher_get(oc, n) = [ret |-> "Ok", data |-> SubSeq(ocAll, 1, n)]

\* C3's case: a never-invalidated cache that has grown to the maximum
\* capacity and holds more than two initial buffers of bytes.
C3_Witness ==
    /\ ~ocInvalidated
    /\ Len(oc.buffer) = MAX_CACHE_SIZE
    /\ oc.size > 2 * INITIAL_CACHE_SIZE

\* C4: after any interleaving of appends and in-window invalidate_to calls
\* with no sequence wraparound, get_all() is the bytes appended and not yet
\* invalidated, in append order.
C4_HeldStreamIsRetained ==
    (~ocWrapped /\ oc.sequence + oc.size <= U32_MAX)
        => /\ Cacher_get_size(oc) = Len(ocHeld)
           /\ Cacher_get_all(oc) = [ret |-> "Ok", data |-> ocHeld]

\* C5: invalidate_to(s) with delta = (s - sequence) mod 2^32 within the
\* window sets the sequence to s, the size to max(0, size - delta), the head
\* to 0 if that is 0 and to (head + delta) mod capacity otherwise, and
\* leaves the buffer as it was.
C5_InvalidateTo ==
    LET p == ocOp.pre
        delta == RingSub(ocOp.arg, p.sequence)
        left == max(0, p.size - delta)
    IN  (ocOp.op = "invalidate_to" /\ delta <= MAX_U32_WINDOW_SIZE)
        => /\ Cacher_get_sequence(oc) = ocOp.arg
           /\ Cacher_get_size(oc) = left
           /\ oc.head = IF left = 0 THEN 0 ELSE (p.head + delta) % Len(p.buffer)
           /\ oc.buffer = p.buffer

\* C6: a call whose sequence lies further than the window ahead of the
\* cache's, measured mod 2^32, changes nothing: invalidate_to on the linear
\* cache, and append on the random cache, which also returns no release.
C6_StaleCallsChangeNothing ==
    /\ (ocOp.op = "invalidate_to"
          /\ RingSub(ocOp.arg, ocOp.pre.sequence) > MAX_U32_WINDOW_SIZE)
        => oc = ocOp.pre
    /\ (rcOp.op = "append"
          /\ RingSub(rcOp.sequence, rcOp.pre.sequence) > MAX_U32_WINDOW_SIZE)
        => (rc = rcOp.pre /\ rcOp.ret = "None")

\* C7: invalidate_to(s) with s numerically below the cache's sequence and
\* within the window across the wrap discards exactly (s - sequence) mod 2^32
\* bytes (all of them if fewer are held): what is held afterwards is what
\* was held before without its first (s - sequence) mod 2^32 bytes.
C7_InvalidateAcrossWrap ==
    LET p == ocOp.pre
        delta == RingSub(ocOp.arg, p.sequence)
    IN  (/\ ocOp.op = "invalidate_to"
         /\ ocOp.arg < p.sequence
         /\ delta <= MAX_U32_WINDOW_SIZE)
        => /\ p.size - oc.size = min(delta, p.size)
           /\ Cacher_get_all(oc).data
                = Drop(Cacher_get_all(p).data, min(delta, p.size))

\* C8: a release by an in-window append advances get_sequence() to exactly
\* (sequence before + released length) mod 2^32, and the released run is the
\* stream from the old release point on.
C8_ReleaseAcrossWrap ==
    (/\ rcOp.op = "append"
     /\ RingSub(rcOp.sequence, rcOp.pre.sequence) <= MAX_U32_WINDOW_SIZE
     /\ rcOp.ret = "Some")
        => /\ RandomCacher_get_sequence(rc)
                = RingAdd(rcOp.pre.sequence, Len(rcOp.data))
           /\ rcOp.data = Fragment(rcOp.pre.sequence, Len(rcOp.data))

\* C9: append fails exactly when size + len exceeds the maximum capacity;
\* a successful append of more than the free space sets the capacity to
\* min(max(2 * capacity, capacity + len), maximum), resets head to 0 and
\* keeps the held bytes in order; one that fits leaves the capacity alone.
C9_CapacityPolicy ==
    LET p == ocOp.pre
        len == ocOp.arg
        cap == Len(p.buffer)
    IN  ocOp.op = "append"
        => /\ (ocOp.ret = "Err") <=> (p.size + len > MAX_CACHE_SIZE)
           /\ (ocOp.ret = "Ok" /\ len > cap - p.size)
                => /\ Len(oc.buffer) = min(max(2 * cap, cap + len), MAX_CACHE_SIZE)
                   /\ oc.head = 0
                   /\ Cacher_get(oc, p.size) = Cacher_get_all(p)
           /\ (ocOp.ret = "Ok" /\ len <= cap - p.size)
                => Len(oc.buffer) = cap

\* C9's case: an append that grew a buffer whose held bytes wrapped past its
\* end.
C9_Witness ==
    /\ ocOp.op = "append"
    /\ ocOp.ret = "Ok"
    /\ Len(oc.buffer) > Len(ocOp.pre.buffer)
    /\ ocOp.pre.head + ocOp.pre.size > Len(ocOp.pre.buffer)

\* C10: an in-window append at offset = (sequence - release point) mod 2^32
\* fails exactly when offset + len exceeds the maximum capacity, and when it
\* succeeds the capacity is at least offset + len.
C10_RandomCapacityPolicy ==
    LET p == rcOp.pre
        offset == RingSub(rcOp.sequence, p.sequence)
    IN  (rcOp.op = "append" /\ offset <= MAX_U32_WINDOW_SIZE)
        => /\ (rcOp.ret = "Err") <=> (offset + rcOp.len > MAX_CACHE_SIZE)
           /\ (rcOp.ret # "Err") => Len(rc.buffer) >= offset + rcOp.len

\* C11: get is a peek.  In every state get(n) fails for n above get_size(),
\* is empty for n = 0 and has n bytes for 0 < n <= get_size(); a call of get
\* leaves the cache as it was and returns what get returns on the cache
\* after it, and get_all() is get(get_size()).
C11_GetIsAPeek ==
    /\ \A n \in 0..(Cacher_get_size(oc) + 1) :
         LET r == Cacher_get(oc, n)
         IN  /\ (n > Cacher_get_size(oc)) => r.ret = "Err"
             /\ (n = 0) => r = [ret |-> "Ok", data |-> <<>>]
             /\ (0 < n /\ n <= Cacher_get_size(oc)) => (r.ret = "Ok" /\ Len(r.data) = n)
    /\ ocOp.op = "get"
        => /\ oc = ocOp.pre
           /\ Cacher_get(oc, ocOp.arg) = [ret |-> ocOp.ret, data |-> ocOp.data]
    /\ Cacher_get_all(oc).ret = "Ok"
    /\ Len(Cacher_get_all(oc).data) = Cacher_get_size(oc)

\* C11's case: a get that read its bytes in two segments, past the end of
\* the buffer.
C11_Witness ==
    /\ ocOp.op = "get"
    /\ ocOp.ret = "Ok"
    /\ ocOp.arg > 0
    /\ ocOp.pre.head + ocOp.arg > Len(ocOp.pre.buffer)

\* C12: in every state the tracked span is within the buffer, size <=
\* capacity, and get_remaining_size() returns min(capacity - size, u16::MAX).
C12_RemainingSize ==
    /\ rc.size <= Len(rc.buffer)
    /\ rcOp.op = "get_remaining_size"
        => /\ rcOp.ret = "Ok"
           /\ rcOp.data = <<min(Len(rc.buffer) - rc.size, U16_MAX)>>

\* C13: no call aborts and no subtraction goes below zero: every call ends
\* with a result, and capacity - size can be computed.
C13_NoAbort ==
    /\ ocOp.ret \in {"Ok", "Err"}
    /\ rcOp.ret \in {"Ok", "None", "Some", "Err"}
    /\ \A r \in RandomCacher_get_remaining_size(rc) : r.ret = "Ok"
    /\ ~RandomCacher_remaining_underflows(rc)

\* The calls of append made so far are exactly those of scenario 4 on a
\* cache created at 0: append(0, "AB"), append(5, "E"), append(2, "CD").
Scenario4 ==
    /\ rcStream.start = 0
    /\ Len(rcLog) = 3
    /\ rcOp.op = "append"
    /\ <<rcLog[1].sequence, rcLog[1].len>> = <<0, 2>>
    /\ <<rcLog[2].sequence, rcLog[2].len>> = <<5, 1>>
    /\ <<rcLog[3].sequence, rcLog[3].len>> = <<2, 2>>

\* C14 as stated: in scenario 4, append(0, "AB") returns "AB", append(5, "E")
\* returns nothing, and append(2, "CD") returns "CDE" with get_sequence() 6.
C14_Scenario4_Original ==
    Scenario4
        => /\ <<rcLog[1].ret, rcLog[1].data>> = <<"Some", Fragment(0, 2)>>
           /\ rcLog[2].ret = "None"
           /\ <<rcLog[3].ret, rcLog[3].data>> = <<"Some", Fragment(2, 4)>>
           /\ RandomCacher_get_sequence(rc) = 6

\* C14 amended: in scenario 4, append(0, "AB") returns "AB", append(5, "E")
\* returns nothing, and append(2, "CD") returns "CD" with get_sequence() 4;
\* the byte at sequence 4 has not arrived, and "E" stays buffered as the one
\* range at 5.
C14_Scenario4 ==
    Scenario4
        => /\ <<rcLog[1].ret, rcLog[1].data>> = <<"Some", Fragment(0, 2)>>
           /\ rcLog[2].ret = "None"
           /\ <<rcLog[3].ret, rcLog[3].data>> = <<"Some", Fragment(2, 2)>>
           /\ RandomCacher_get_sequence(rc) = 4
           /\ rc.ranges = RangesInsert(NoRanges, 5, 1)

\* C14's case: the three calls of scenario 4 have been made.
C14_Witness == Scenario4 /\ rcLog[3].ret = "Some"

\* The positions, in key space, that the ranges of c cover.
Covered(c) == UNION {k..(k + c.ranges[k] - 1) : k \in DOMAIN c.ranges}

\* C15: after an in-window append that is accepted and releases nothing, the
\* positions covered by `ranges` are those covered before the call together
\* with [sequence, sequence + len).
C15_MergeKeepsCoverage ==
    LET p == rcOp.pre
        key == RandomCacher_key(p, rcOp.sequence)
    IN  (/\ rcOp.op = "append"
         /\ rcOp.ret = "None"
         /\ RingSub(rcOp.sequence, p.sequence) <= MAX_U32_WINDOW_SIZE)
        => Covered(rc) = Covered(p) \cup (key..(key + rcOp.len - 1))


\* The ranges of c are pairwise non-overlapping.
NonOverlapping(c) ==
    \A a, b \in DOMAIN c.ranges : a < b => a + c.ranges[a] <= b

\* C16 as stated: after every append that returns, the ranges are pairwise
\* non-overlapping and the earliest key modulo 2^32 is strictly greater than
\* the release point.
C16_RangeMap_Original ==
    (rcOp.op = "append" /\ rcOp.ret # "Panic")
        => /\ NonOverlapping(rc)
           /\ (rc.ranges # NoRanges
                => SetMin(DOMAIN rc.ranges) % U32Modulus > rc.sequence)

\* C16 amended: after every append that returns, the ranges are pairwise
\* non-overlapping, and the earliest key, as the extended key the map holds,
\* is strictly greater than the release point and is not the release point
\* modulo 2^32.
C16_RangeMap ==
    (rcOp.op = "append" /\ rcOp.ret # "Panic")
        => /\ NonOverlapping(rc)
           /\ (rc.ranges # NoRanges
                => /\ SetMin(DOMAIN rc.ranges) > rc.sequence
                   /\ SetMin(DOMAIN rc.ranges) % U32Modulus # rc.sequence)

\* C16's case: an append released bytes and left two ranges in the map, the
\* earliest of them keyed past the wrap.
C16_Witness ==
    /\ rcOp.op = "append"
    /\ rcOp.ret = "Some"
    /\ Cardinality(DOMAIN rc.ranges) >= 2
    /\ SetMin(DOMAIN rc.ranges) > U32_MAX

\* C17: after an in-window append that is accepted, byte i of the fragment is
\* at ring index (head + offset + i) mod capacity, offset being (sequence -
\* release point) mod 2^32 and head and capacity taken after any growth (a
\* growth moves head to 0).  The call released nothing, so head is still the
\* head the write used.
C17_RingPlacement ==
    LET p == rcOp.pre
        offset == RingSub(rcOp.sequence, p.sequence)
        cap == Len(rc.buffer)
        head == IF cap > Len(p.buffer) THEN 0 ELSE p.head
    IN  (/\ rcOp.op = "append"
         /\ rcOp.ret = "None"
         /\ offset <= MAX_U32_WINDOW_SIZE)
        => \A i \in 0..(rcOp.len - 1) :
             rc.buffer[((head + offset + i) % cap) + 1]
                = ByteAt(RingAdd(rcOp.sequence, i))

\* C18: in every state of the linear cache 0 <= size <= capacity, 0 <= head
\* < capacity, initial capacity <= capacity <= maximum capacity, and the
\* capacity is not below the capacity before the last call.
C18_Structure ==
    LET capacity == Len(oc.buffer)
    IN  /\ 0 <= oc.size /\ oc.size <= capacity
        /\ 0 <= oc.head /\ oc.head < capacity
        /\ INITIAL_CACHE_SIZE <= capacity /\ capacity <= MAX_CACHE_SIZE
        /\ capacity >= Len(ocOp.pre.buffer)

\* C18's case: an append on a full cache whose head had advanced grew the
\* buffer to the maximum capacity.
C18_Witness ==
    /\ ocOp.op = "append"
    /\ ocOp.ret = "Ok"
    /\ ocOp.pre.head > 0
    /\ ocOp.pre.size = Len(ocOp.pre.buffer)
    /\ Len(ocOp.pre.buffer) < MAX_CACHE_SIZE
    /\ Len(oc.buffer) = MAX_CACHE_SIZE

\* C19: an append that returns the capacity error leaves every field of the
\* cache (buffer, head, size, sequence, and ranges for the random cache) as
\* it was before the call.
C19_FailedAppendIsAtomic ==
    /\ (ocOp.op = "append" /\ ocOp.ret = "Err") => oc = ocOp.pre
    /\ (rcOp.op = "append" /\ rcOp.ret = "Err") => rc = rcOp.pre

\* C19's case: the random cache refused an append while it held a buffered
\* range and its head had advanced.
C19_Witness ==
    /\ rcOp.op = "append"
    /\ rcOp.ret = "Err"
    /\ rcOp.pre.head > 0
    /\ rcOp.pre.ranges # NoRanges

\* C20: when the last call appends a fragment that an earlier call had
\* appended and the cache had taken in (in the window, not refused, nothing
\* released), and the fragment is still ahead of the release point, the call
\* returns nothing and leaves the release point, size and the positions
\* covered by `ranges` as they were.
C20_DuplicateIsHarmless ==
    LET p == rcOp.pre
        n == Len(rcLog)
    IN  (/\ rcOp.op = "append"
         /\ rcOp.len > 0
         /\ rcOp.sequence > p.sequence
         /\ RandomCacher_sub_sequence(p, rcOp.sequence) <= MAX_U32_WINDOW_SIZE
         /\ \E i \in 1..(n - 1) :
               /\ rcLog[i].sequence = rcOp.sequence
               /\ rcLog[i].len = rcOp.len
               /\ rcLog[i].ret = "None"
               /\ RandomCacher_sub_sequence(rcLog[i].pre, rcLog[i].sequence)
                     <= MAX_U32_WINDOW_SIZE)
        => /\ rcOp.ret = "None"
           /\ rc.sequence = p.sequence
           /\ rc.size = p.size
           /\ Covered(rc) = Covered(p)

====
